---- MODULE Spec2Model ----
(***************************************************************************)
(* Model of the linkedin-data-enrichment toolkit:                          *)
(*   - utils/process-linkedin-profiles/main.go : the bounded-concurrency   *)
(*     job dispatcher (main, processFile, ProcessingStats, logMessage);    *)
(*   - the single-column CSV profile attacher (csv-profile-attacher);      *)
(*   - utils/csv-message-attacher/main.go : the headline/body attacher;    *)
(*   - utils/jsonl-splitter/main.go : the JSONL splitter.                  *)
(* Text values are sequences of one-character strings, so that substring   *)
(* search, trimming and number formatting are computed, not assumed.       *)
(***************************************************************************)
EXTENDS Integers, Sequences, FiniteSets, TLC

\* ------------------------------------------------------------------------
\* Bounds of the model
\* ------------------------------------------------------------------------
\* largest number of entries in the dispatcher's input folder
MaxFiles == 2
\* largest value of the -workers flag
MaxWorkersBound == 2
\* largest number of data records in a CSV table
MaxRows == 2
\* largest number of entries in a profile or message directory
MaxArtifacts == 2
\* largest number of lines in a JSONL input file
MaxLines == 3
\* largest length of a string handed to sanitizeFilename on its own
MaxNameLen == 3

\* ------------------------------------------------------------------------
\* Text helpers
\* ------------------------------------------------------------------------
\* unicode.IsSpace restricted to the characters of the model
IsSpace(c) == c \in {" ", "\t"}

RECURSIVE FieldsFrom(_, _, _)
\* strings.Fields: the maximal runs of non-space characters, in order
FieldsFrom(s, i, cur) ==
  IF i > Len(s)
  THEN IF cur = <<>> THEN <<>> ELSE <<cur>>
  ELSE IF IsSpace(s[i])
       THEN IF cur = <<>>
            THEN FieldsFrom(s, i + 1, <<>>)
            ELSE <<cur>> \o FieldsFrom(s, i + 1, <<>>)
       ELSE FieldsFrom(s, i + 1, Append(cur, s[i]))

Fields(s) == FieldsFrom(s, 1, <<>>)

\* parseFabricCommand: command name and arguments, or "" and nil
parseFabricCommand(cmdString) ==
  LET parts == Fields(cmdString)
  IN IF Len(parts) = 0
     THEN [name |-> <<>>, args |-> <<>>]
     ELSE [name |-> parts[1], args |-> Tail(parts)]

\* strings.Contains: sub occurs in s as a contiguous run (always, when empty)
Contains(s, sub) ==
  \E i \in 0..(Len(s) - Len(sub)) : SubSeq(s, i + 1, i + Len(sub)) = sub

\* a sequence of n empty fields
RECURSIVE Blanks(_)
Blanks(n) == IF n <= 0 THEN <<>> ELSE <<<<>>>> \o Blanks(n - 1)

RECURSIVE SortedSeq(_)
\* ascending sequence of a finite set of integers (Glob returns sorted names)
SortedSeq(S) ==
  IF S = {} THEN <<>>
  ELSE LET m == CHOOSE x \in S : \A y \in S : x <= y
       IN <<m>> \o SortedSeq(S \ {m})

\* ------------------------------------------------------------------------
\* Dispatcher: constants of the program
\* ------------------------------------------------------------------------
FileTypeJSON == "json"
FileTypeMarkdown == "md"
FileTypeUnknown == "unknown"

\* detectFileType: kind from the (lower-cased) extension
detectFileType(ext) ==
  CASE ext = ".json" -> FileTypeJSON
    [] ext = ".md" -> FileTypeMarkdown
    [] OTHER -> FileTypeUnknown

\* values of the -fabric-cmd flag the model draws from
FabricCommands ==
  { <<" ">>, <<"s", " ", "-", "t">> }

\* entries an input folder can hold: base name (1 for alice, 2 for bob) and
\* extension
DirEntries == {1, 2} \X {".json", ".md"}

\* states of the input folder as filepath.Glob sees it
DirStates == {"ok", "missing", "badpattern"}

Workers == 1..MaxFiles

VARIABLES
  config,      \* Config: MaxWorkers, FabricCommand
  inputDir,    \* the input folder: state and set of entries
  mainPc,      \* position of main()
  inputFiles,  \* result of findInputFiles
  idx,         \* position of the range loop over inputFiles
  wg,          \* sync.WaitGroup counter
  semaphore,   \* number of tokens in the buffered channel
  mutex,       \* 0 when free, else the worker holding it
  stats,       \* ProcessingStats
  logLines,    \* number of lines written to the log file
  summary,     \* the statistics as read for the completion message
  wpc,         \* position of each worker goroutine
  wbranch,     \* the return path of processFile each worker has taken
  proc,        \* state of the fabric subprocess of each worker
  wreg         \* the counters a worker has read for its increment, if any

dvars == <<config, inputDir, mainPc, inputFiles, idx, wg, semaphore, mutex,
           stats, logLines, summary, wpc, wbranch, proc, wreg>>

\* ------------------------------------------------------------------------
\* CSV profile attacher (single-column merge): state
\* ------------------------------------------------------------------------
VARIABLES
  csvFile,         \* the records of the input CSV file as written on disk
  columnName,      \* the -column flag
  profileDir,      \* the profile directory: readable flag and sorted entries
  mPc,             \* position of main()
  records,         \* the table in memory; records[1] is the header
  profileColIndex, \* index of the target column (1-based), 0 before it is set
  fileIdx,         \* position of the loop over profileFiles
  attachedCount,
  notFoundCount,
  outputCSV,       \* <<>> until written, then <<records written>>
  run,             \* 1 in the first run, 2 in the run over the first output
  firstOutput      \* the table the first run wrote

mvars == <<csvFile, columnName, profileDir, mPc, records, profileColIndex,
           fileIdx, attachedCount, notFoundCount, outputCSV, run, firstOutput>>

\* the profile attacher is not running
MergeIdle ==
  /\ csvFile = <<>>
  /\ columnName = <<>>
  /\ profileDir = [ok |-> TRUE, entries |-> <<>>]
  /\ mPc = "off"
  /\ records = <<>>
  /\ profileColIndex = 0
  /\ fileIdx = 0
  /\ attachedCount = 0
  /\ notFoundCount = 0
  /\ outputCSV = <<>>
  /\ run = 0
  /\ firstOutput = <<>>

\* ------------------------------------------------------------------------
\* CSV message attacher (headline/body merge): state
\* ------------------------------------------------------------------------
VARIABLES
  msgCsvFile,      \* the records of the input CSV file as written on disk
  headColumnName,  \* the -head flag
  bodyColumnName,  \* the -body flag
  messageDir,      \* the message directory: readable flag and sorted entries
  aPc,             \* position of main()
  msgRecords,      \* the table in memory; msgRecords[1] is the header
  headColIndex,    \* index of the headline column (1-based), 0 before set
  bodyColIndex,    \* index of the body column (1-based), 0 before set
  rowIdx,          \* position of the loop over the records
  msgAttachedCount,
  msgNotFoundCount,
  msgOutputCSV,    \* <<>> until written, then <<records written>>
  msgRun,          \* 1 in the first run, 2 in the run over the first output
  msgFirstOutput   \* the table the first run wrote

avars == <<msgCsvFile, headColumnName, bodyColumnName, messageDir, aPc,
           msgRecords, headColIndex, bodyColIndex, rowIdx, msgAttachedCount,
           msgNotFoundCount, msgOutputCSV, msgRun, msgFirstOutput>>

\* the message attacher is not running
AttachIdle ==
  /\ msgCsvFile = <<>>
  /\ headColumnName = <<>>
  /\ bodyColumnName = <<>>
  /\ messageDir = [ok |-> TRUE, entries |-> <<>>]
  /\ aPc = "off"
  /\ msgRecords = <<>>
  /\ headColIndex = 0
  /\ bodyColIndex = 0
  /\ rowIdx = 0
  /\ msgAttachedCount = 0
  /\ msgNotFoundCount = 0
  /\ msgOutputCSV = <<>>
  /\ msgRun = 0
  /\ msgFirstOutput = <<>>

\* ------------------------------------------------------------------------
\* JSONL splitter: state
\* ------------------------------------------------------------------------
VARIABLES
  inputLines,      \* the lines of the input file
  fallbackPrefix,  \* the -fallback-prefix flag
  sPc,             \* position of main()
  lineCount,
  successCount,
  usedFilenames,   \* map from base prefix to the number of times it was seen
  candidates,      \* the prefixes handed to the duplicate handling, in order
  tokens,          \* the prefixes it returned, in order
  outputFiles      \* the names of the files in the output directory

svars == <<inputLines, fallbackPrefix, sPc, lineCount, successCount,
           usedFilenames, candidates, tokens, outputFiles>>

\* the splitter is not running
SplitIdle ==
  /\ inputLines = <<>>
  /\ fallbackPrefix = <<>>
  /\ sPc = "off"
  /\ lineCount = 0
  /\ successCount = 0
  /\ usedFilenames = <<>>
  /\ candidates = <<>>
  /\ tokens = <<>>
  /\ outputFiles = {}

\* ------------------------------------------------------------------------
\* sanitizeFilename called on its own: state
\* ------------------------------------------------------------------------
VARIABLES
  sanInput,        \* the string handed to sanitizeFilename
  sanOutput,       \* <<>> until it has returned, then <<its result>>
  sanAgain,        \* <<>>, then <<the result of sanitizing that result>>
  nPc              \* position of the caller

nvars == <<sanInput, sanOutput, sanAgain, nPc>>

\* sanitizeFilename is not being called on its own
SanitizeIdle ==
  /\ sanInput = <<>>
  /\ sanOutput = <<>>
  /\ sanAgain = <<>>
  /\ nPc = "off"

\* the state of the tools other than the dispatcher
notDispatch == <<mvars, avars, svars, nvars>>

\* the state of the tools other than the splitter
notSplit == <<dvars, mvars, avars, nvars>>

vars == <<dvars, mvars, avars, svars, nvars>>

\* the state of the tools other than the profile attacher
notMerge == <<dvars, avars, svars, nvars>>

\* the state of the tools other than the message attacher
notAttach == <<dvars, mvars, svars, nvars>>

\* the state of the tools when sanitizeFilename is called on its own
notSanitize == <<dvars, mvars, avars, svars>>

\* newProcessingStats
newProcessingStats ==
  [Total |-> 0, Successful |-> 0, Failed |-> 0, Skipped |-> 0,
   JSONFiles |-> 0, MDFiles |-> 0]

\* setTotal leaving the total as it was
setTotalForgotten(s, total) == s

\* ProcessingStats.setTotal
setTotal(s, total) == [s EXCEPT !.Total = total]

\* incrementSuccessful without the per-kind counters
incrementSuccessfulNoKind(s, fileType) == [s EXCEPT !.Successful = @ + 1]

\* ProcessingStats.incrementSuccessful (body, under the mutex)
incrementSuccessful(s, fileType) ==
  [s EXCEPT !.Successful = @ + 1,
            !.JSONFiles = IF fileType = FileTypeJSON THEN @ + 1 ELSE @,
            !.MDFiles = IF fileType = FileTypeMarkdown THEN @ + 1 ELSE @]

\* ProcessingStats.incrementFailed (body, under the mutex)
incrementFailed(s) == [s EXCEPT !.Failed = @ + 1]

\* ProcessingStats.incrementSkipped (body, under the mutex)
incrementSkipped(s) == [s EXCEPT !.Skipped = @ + 1]

\* findInputFiles: *.json matches then *.md matches, each sorted by name;
\* filepath.Glob reports only a malformed pattern and ignores I/O errors
findInputFiles(dir) ==
  IF dir.state = "badpattern"
  THEN [err |-> TRUE, files |-> <<>>]
  ELSE LET present == IF dir.state = "ok" THEN dir.entries ELSE {}
           json == SortedSeq({e[1] : e \in {x \in present : x[2] = ".json"}})
           md == SortedSeq({e[1] : e \in {x \in present : x[2] = ".md"}})
       IN [err |-> FALSE,
           files |-> [i \in 1..Len(json) |-> <<json[i], ".json">>]
                     \o [i \in 1..Len(md) |-> <<md[i], ".md">>]]

\* processFile, lines 237-239: the output path of a job, the base name of
\* the input file with the extension .md, in the output folder
outputFilePath(file) == <<file[1], ".md">>

\* the dispatcher is not running
DispatchIdle ==
  /\ config = [MaxWorkers |-> 1, FabricCommand |-> <<>>]
  /\ inputDir = [state |-> "missing", entries |-> {}]
  /\ mainPc = "off"
  /\ inputFiles = <<>>
  /\ idx = 1
  /\ wg = 0
  /\ semaphore = 0
  /\ mutex = 0
  /\ stats = newProcessingStats
  /\ logLines = 0
  /\ summary = <<>>
  /\ wpc = [w \in Workers |-> "idle"]
  /\ wbranch = [w \in Workers |-> "none"]
  /\ proc = [w \in Workers |-> "none"]
  /\ wreg = [w \in Workers |-> <<>>]

InitDispatch ==
  /\ config \in [MaxWorkers : 1..MaxWorkersBound, FabricCommand : FabricCommands]
  /\ inputDir \in [state : DirStates,
                   entries : {S \in SUBSET DirEntries : Cardinality(S) <= MaxFiles}]
  /\ mainPc = "find"
  /\ inputFiles = <<>>
  /\ idx = 1
  /\ wg = 0
  /\ semaphore = 0
  /\ mutex = 0
  /\ stats = newProcessingStats
  /\ logLines = 1
  /\ summary = <<>>
  /\ wpc = [w \in Workers |-> "idle"]
  /\ wbranch = [w \in Workers |-> "none"]
  /\ proc = [w \in Workers |-> "none"]
  /\ wreg = [w \in Workers |-> <<>>]
  /\ MergeIdle
  /\ AttachIdle
  /\ SplitIdle
  /\ SanitizeIdle

\* MainFind without the check for an empty list of files
MainFindNoEmptyCheck ==
  /\ mainPc = "find"
  /\ LET r == findInputFiles(inputDir)
     IN IF r.err
        THEN /\ mainPc' = "exit1"
             /\ logLines' = logLines + 1
             /\ UNCHANGED inputFiles
        ELSE /\ inputFiles' = r.files
             /\ logLines' = logLines + 1
             /\ mainPc' = "setup"
  /\ UNCHANGED <<notDispatch, config, inputDir, idx, wg, semaphore, mutex, stats, summary,
                 wpc, wbranch, proc, wreg>>

\* main, lines 116-132: enumerate the input folder
MainFind ==
  /\ mainPc = "find"
  /\ LET r == findInputFiles(inputDir)
     IN IF r.err
        THEN /\ mainPc' = "exit1"
             /\ logLines' = logLines + 1
             /\ UNCHANGED inputFiles
        ELSE /\ inputFiles' = r.files
             /\ logLines' = logLines + 1
             /\ mainPc' = IF Len(r.files) = 0 THEN "exit0" ELSE "setup"
  /\ UNCHANGED <<notDispatch, config, inputDir, idx, wg, semaphore, mutex, stats, summary,
                 wpc, wbranch, proc, wreg>>

\* main, lines 134-139: worker pool and statistics
MainSetup ==
  /\ mainPc = "setup"
  /\ stats' = setTotal(newProcessingStats, Len(inputFiles))
  /\ idx' = 1
  /\ mainPc' = "add"
  /\ UNCHANGED <<notDispatch, config, inputDir, inputFiles, wg, semaphore, mutex, logLines,
                 summary, wpc, wbranch, proc, wreg>>

\* main, line 143: wg.Add(1)
MainAdd ==
  /\ mainPc = "add"
  /\ wg' = wg + 1
  /\ mainPc' = "acquire"
  /\ UNCHANGED <<notDispatch, config, inputDir, inputFiles, idx, semaphore, mutex, stats,
                 logLines, summary, wpc, wbranch, proc, wreg>>

\* main, line 144: send a token, blocking while the channel is full
MainAcquire ==
  /\ mainPc = "acquire"
  /\ semaphore < config.MaxWorkers
  /\ semaphore' = semaphore + 1
  /\ mainPc' = "go"
  /\ UNCHANGED <<notDispatch, config, inputDir, inputFiles, idx, wg, mutex, stats, logLines,
                 summary, wpc, wbranch, proc, wreg>>

\* main, lines 145-150: start the goroutine and advance the loop
MainGo ==
  /\ mainPc = "go"
  /\ wpc' = [wpc EXCEPT ![idx] = "begin"]
  /\ idx' = idx + 1
  /\ mainPc' = IF idx + 1 > Len(inputFiles) THEN "wgwait" ELSE "add"
  /\ UNCHANGED <<notDispatch, config, inputDir, inputFiles, wg, semaphore, mutex, stats,
                 logLines, summary, wbranch, proc, wreg>>

\* MainWait without the join: main goes on while workers are running
MainWaitNoJoin ==
  /\ mainPc = "wgwait"
  /\ mainPc' = "summary"
  /\ UNCHANGED <<notDispatch, config, inputDir, inputFiles, idx, wg, semaphore,
                 mutex, stats, logLines, summary, wpc, wbranch, proc, wreg>>

\* main, line 153: wg.Wait()
MainWait ==
  /\ mainPc = "wgwait"
  /\ wg = 0
  /\ mainPc' = "summary"
  /\ UNCHANGED <<notDispatch, config, inputDir, inputFiles, idx, wg, semaphore, mutex,
                 stats, logLines, summary, wpc, wbranch, proc, wreg>>

\* main, lines 155-157: completion message with the statistics
MainSummary ==
  /\ mainPc = "summary"
  /\ summary' = <<stats>>
  /\ logLines' = logLines + 1
  /\ mainPc' = "done"
  /\ UNCHANGED <<notDispatch, config, inputDir, inputFiles, idx, wg, semaphore, mutex,
                 stats, wpc, wbranch, proc, wreg>>

\* what a worker leaves alone besides its own position, outcome and process
WorkerFrame ==
  UNCHANGED <<notDispatch, config, inputDir, mainPc, inputFiles, idx, wg, semaphore, mutex,
              stats, logLines, summary, wreg>>

\* processFile, lines 237-268: command and kind checks
PFBegin(w) ==
  /\ wpc[w] = "begin"
  /\ LET cmdName == parseFabricCommand(config.FabricCommand).name
         fileType == detectFileType(inputFiles[w][2])
     IN IF cmdName = <<>>
        THEN /\ wbranch' = [wbranch EXCEPT ![w] = "cmdempty"]
             /\ wpc' = [wpc EXCEPT ![w] = "log"]
        ELSE IF fileType = FileTypeUnknown
             THEN /\ wbranch' = [wbranch EXCEPT ![w] = "unknown"]
                  /\ wpc' = [wpc EXCEPT ![w] = "log"]
             ELSE /\ wpc' = [wpc EXCEPT ![w] = "read"]
                  /\ UNCHANGED wbranch
  /\ UNCHANGED proc
  /\ WorkerFrame

\* processFile, lines 270-278: os.ReadFile succeeds or fails
PFRead(w) ==
  /\ wpc[w] = "read"
  /\ \E ok \in BOOLEAN :
       IF ok
       THEN /\ wpc' = [wpc EXCEPT ![w] = "pipe"]
            /\ UNCHANGED wbranch
       ELSE /\ wbranch' = [wbranch EXCEPT ![w] = "readerr"]
            /\ wpc' = [wpc EXCEPT ![w] = "log"]
  /\ UNCHANGED proc
  /\ WorkerFrame

\* processFile, lines 280-298: cmd.StdinPipe succeeds or fails
PFPipe(w) ==
  /\ wpc[w] = "pipe"
  /\ \E ok \in BOOLEAN :
       IF ok
       THEN /\ wpc' = [wpc EXCEPT ![w] = "spawn"]
            /\ UNCHANGED wbranch
       ELSE /\ wbranch' = [wbranch EXCEPT ![w] = "pipeerr"]
            /\ wpc' = [wpc EXCEPT ![w] = "log"]
  /\ UNCHANGED proc
  /\ WorkerFrame

\* processFile, lines 304-311: cmd.Start creates the subprocess or fails
PFStart(w) ==
  /\ wpc[w] = "spawn"
  /\ \E ok \in BOOLEAN :
       IF ok
       THEN /\ proc' = [proc EXCEPT ![w] = "running"]
            /\ wpc' = [wpc EXCEPT ![w] = "write"]
            /\ UNCHANGED wbranch
       ELSE /\ wbranch' = [wbranch EXCEPT ![w] = "spawnerr"]
            /\ wpc' = [wpc EXCEPT ![w] = "log"]
            /\ UNCHANGED proc
  /\ WorkerFrame

\* processFile, lines 313-321: stdin.Write fails when the read end of the
\* pipe is gone (the child closed its stdin or exited); the function then
\* returns without cmd.Wait; it blocks while a child that hangs with its
\* stdin open does not read
PFWrite(w) ==
  /\ wpc[w] = "write"
  /\ proc[w] # "hung"
  /\ IF proc[w] = "running"
     THEN /\ wpc' = [wpc EXCEPT ![w] = "wait"]
          /\ UNCHANGED wbranch
     ELSE /\ wbranch' = [wbranch EXCEPT ![w] = "writeerr"]
          /\ wpc' = [wpc EXCEPT ![w] = "log"]
  /\ UNCHANGED proc
  /\ WorkerFrame

\* PFWait with the error of cmd.Wait ignored: every exit is a success
PFWaitIgnoresStatus(w) ==
  /\ wpc[w] = "wait"
  /\ proc[w] \in {"exit0", "exit1"}
  /\ wbranch' = [wbranch EXCEPT ![w] = "success"]
  /\ proc' = [proc EXCEPT ![w] = "reaped"]
  /\ wpc' = [wpc EXCEPT ![w] = "log"]
  /\ WorkerFrame

\* processFile, lines 323-330: cmd.Wait blocks until the child has exited
PFWait(w) ==
  /\ wpc[w] = "wait"
  /\ proc[w] \in {"exit0", "exit1"}
  /\ wbranch' = [wbranch EXCEPT ![w] = IF proc[w] = "exit0" THEN "success" ELSE "waiterr"]
  /\ proc' = [proc EXCEPT ![w] = "reaped"]
  /\ wpc' = [wpc EXCEPT ![w] = "log"]
  /\ WorkerFrame

\* logMessage, line 346: mutex.Lock
LogLock(w) ==
  /\ wpc[w] = "log"
  /\ mutex = 0
  /\ mutex' = w
  /\ wpc' = [wpc EXCEPT ![w] = "logging"]
  /\ UNCHANGED <<notDispatch, config, inputDir, mainPc, inputFiles, idx, wg, semaphore,
                 stats, logLines, summary, wbranch, proc, wreg>>

\* logMessage, lines 349-350 and the deferred Unlock
LogWrite(w) ==
  /\ wpc[w] = "logging"
  /\ logLines' = logLines + 1
  /\ mutex' = 0
  /\ wpc' = [wpc EXCEPT ![w] = "count"]
  /\ UNCHANGED <<notDispatch, config, inputDir, mainPc, inputFiles, idx, wg, semaphore,
                 stats, summary, wbranch, proc, wreg>>

\* IncLock without the mutex: the counters are read at once
IncLockNoMutex(w) ==
  /\ wpc[w] = "count"
  /\ wreg' = [wreg EXCEPT ![w] = <<stats>>]
  /\ wpc' = [wpc EXCEPT ![w] = "counting"]
  /\ UNCHANGED <<notDispatch, config, inputDir, mainPc, inputFiles, idx, wg, semaphore,
                 mutex, stats, logLines, summary, wbranch, proc>>

\* increment*, mutex.Lock and the read of the counters for the ++
IncLock(w) ==
  /\ wpc[w] = "count"
  /\ mutex = 0
  /\ mutex' = w
  /\ wreg' = [wreg EXCEPT ![w] = <<stats>>]
  /\ wpc' = [wpc EXCEPT ![w] = "counting"]
  /\ UNCHANGED <<notDispatch, config, inputDir, mainPc, inputFiles, idx, wg, semaphore,
                 stats, logLines, summary, wbranch, proc>>

\* the return paths of processFile that call incrementFailed
FailedBranches ==
  {"cmdempty", "readerr", "pipeerr", "spawnerr", "writeerr", "waiterr"}

\* countOutcome with the stdin-write failure path returning uncounted
countOutcomeWriteUncounted(s, branch, fileType) ==
  CASE branch = "success" -> incrementSuccessful(s, fileType)
    [] branch \in FailedBranches \ {"writeerr"} -> incrementFailed(s)
    [] branch = "writeerr" -> s
    [] branch = "unknown" -> incrementSkipped(s)

\* the counter update each return path of processFile makes
countOutcome(s, branch, fileType) ==
  CASE branch = "success" -> incrementSuccessful(s, fileType)
    [] branch \in FailedBranches -> incrementFailed(s)
    [] branch = "unknown" -> incrementSkipped(s)

\* increment*, the write of the incremented counters and the deferred
\* Unlock; processFile returns
IncDo(w) ==
  /\ wpc[w] = "counting"
  /\ stats' = countOutcome(wreg[w][1], wbranch[w], detectFileType(inputFiles[w][2]))
  /\ mutex' = 0
  /\ wpc' = [wpc EXCEPT ![w] = "returned"]
  /\ wbranch' = [wbranch EXCEPT ![w] = "none"]
  /\ wreg' = [wreg EXCEPT ![w] = <<>>]
  /\ UNCHANGED <<notDispatch, config, inputDir, mainPc, inputFiles, idx, wg, semaphore,
                 logLines, summary, proc>>

\* WRelease without the receive from the channel
WReleaseForgotten(w) ==
  /\ wpc[w] = "returned"
  /\ wpc' = [wpc EXCEPT ![w] = "released"]
  /\ UNCHANGED <<notDispatch, config, inputDir, mainPc, inputFiles, idx, wg, mutex, stats,
                 logLines, summary, wbranch, proc, wreg, semaphore>>

\* main, line 147: deferred release of the token
WRelease(w) ==
  /\ wpc[w] = "returned"
  /\ semaphore' = semaphore - 1
  /\ wpc' = [wpc EXCEPT ![w] = "released"]
  /\ UNCHANGED <<notDispatch, config, inputDir, mainPc, inputFiles, idx, wg, mutex, stats,
                 logLines, summary, wbranch, proc, wreg>>

\* WDone without the decrement of the wait group
WDoneForgotten(w) ==
  /\ wpc[w] = "released"
  /\ wpc' = [wpc EXCEPT ![w] = "done"]
  /\ UNCHANGED <<notDispatch, config, inputDir, mainPc, inputFiles, idx, mutex, semaphore,
                 stats, logLines, summary, wbranch, proc, wreg, wg>>

\* main, line 146: deferred wg.Done
WDone(w) ==
  /\ wpc[w] = "released"
  /\ wg' = wg - 1
  /\ wpc' = [wpc EXCEPT ![w] = "done"]
  /\ UNCHANGED <<notDispatch, config, inputDir, mainPc, inputFiles, idx, mutex, semaphore,
                 stats, logLines, summary, wbranch, proc, wreg>>

\* the fabric child closes its standard input while it keeps running
ProcCloseStdin(w) ==
  /\ proc[w] = "running"
  /\ wpc[w] = "write"
  /\ proc' = [proc EXCEPT ![w] = "nostdin"]
  /\ UNCHANGED <<wpc, wbranch>>
  /\ WorkerFrame

\* the fabric child exits with status zero or non-zero
ProcExit(w) ==
  /\ proc[w] \in {"running", "nostdin"}
  /\ \E code \in {"exit0", "exit1"} : proc' = [proc EXCEPT ![w] = code]
  /\ UNCHANGED <<wpc, wbranch>>
  /\ WorkerFrame

Next ==
  \/ MainFind
  \/ MainSetup
  \/ MainAdd
  \/ MainAcquire
  \/ MainGo
  \/ MainWait
  \/ MainSummary
  \/ \E w \in Workers : PFBegin(w)
  \/ \E w \in Workers : PFRead(w)
  \/ \E w \in Workers : PFPipe(w)
  \/ \E w \in Workers : PFStart(w)
  \/ \E w \in Workers : PFWrite(w)
  \/ \E w \in Workers : PFWait(w)
  \/ \E w \in Workers : LogLock(w)
  \/ \E w \in Workers : LogWrite(w)
  \/ \E w \in Workers : IncLock(w)
  \/ \E w \in Workers : IncDo(w)
  \/ \E w \in Workers : WRelease(w)
  \/ \E w \in Workers : WDone(w)
  \/ \E w \in Workers : ProcCloseStdin(w)
  \/ \E w \in Workers : ProcExit(w)

Spec == InitDispatch /\ [][Next]_vars

\* input folders of 0, 1, 2, ... files: the names of the files do not bear
\* on whether a run ends, their number does
FairListing == << <<1, ".json">>, <<2, ".json">>, <<1, ".md">>, <<2, ".md">> >>

InitFair ==
  /\ InitDispatch
  /\ \E n \in 0..MaxFiles :
       /\ n <= Len(FairListing)
       /\ inputDir.entries = {FairListing[i] : i \in 1..n}

\* the dispatcher under fair scheduling with fabric children that all exit:
\* a goroutine that can run does run and a running child exits; the run has
\* no loop, so fairness of the steps as a whole is enough
SpecFair == InitFair /\ [][Next]_vars /\ WF_vars(Next)

\* ------------------------------------------------------------------------
\* processFile called on its own, for a path of any extension
\* ------------------------------------------------------------------------
\* extensions of the path handed to processFile
ExtPool == {".json", ".md", ".txt"}

\* one job: the state main is in when it waits for the worker it launched
\* for the single file, whatever the extension of that file
InitProcessFile ==
  /\ config \in [MaxWorkers : 1..MaxWorkersBound, FabricCommand : FabricCommands]
  /\ inputDir = [state |-> "ok", entries |-> {}]
  /\ inputFiles \in {<< <<b, e>> >> : b \in {1, 2}, e \in ExtPool}
  /\ mainPc = "wgwait"
  /\ idx = 2
  /\ wg = 1
  /\ semaphore = 1
  /\ mutex = 0
  /\ stats = setTotal(newProcessingStats, 1)
  /\ logLines = 2
  /\ summary = <<>>
  /\ wpc = [w \in Workers |-> IF w = 1 THEN "begin" ELSE "idle"]
  /\ wbranch = [w \in Workers |-> "none"]
  /\ proc = [w \in Workers |-> "none"]
  /\ wreg = [w \in Workers |-> <<>>]
  /\ MergeIdle
  /\ AttachIdle
  /\ SplitIdle
  /\ SanitizeIdle

NextProcessFile ==
  \/ MainWait
  \/ MainSummary
  \/ \E w \in Workers : PFBegin(w)
  \/ \E w \in Workers : PFRead(w)
  \/ \E w \in Workers : PFPipe(w)
  \/ \E w \in Workers : PFStart(w)
  \/ \E w \in Workers : PFWrite(w)
  \/ \E w \in Workers : PFWait(w)
  \/ \E w \in Workers : LogLock(w)
  \/ \E w \in Workers : LogWrite(w)
  \/ \E w \in Workers : IncLock(w)
  \/ \E w \in Workers : IncDo(w)
  \/ \E w \in Workers : WRelease(w)
  \/ \E w \in Workers : WDone(w)
  \/ \E w \in Workers : ProcCloseStdin(w)
  \/ \E w \in Workers : ProcExit(w)

SpecProcessFile == InitProcessFile /\ [][NextProcessFile]_vars

\* ------------------------------------------------------------------------
\* The dispatcher with one fabric invocation that never terminates
\* ------------------------------------------------------------------------
\* states of a fabric child that will never exit: with its stdin open, or
\* after it closed its stdin
HungStates == {"hung", "hungclosed"}

\* a running fabric child hangs for good; at most one child does
ProcHang(w) ==
  /\ proc[w] \in {"running", "nostdin"}
  /\ \A v \in Workers : proc[v] \notin HungStates
  /\ proc' = [proc EXCEPT ![w] = IF proc[w] = "running" THEN "hung" ELSE "hungclosed"]
  /\ UNCHANGED <<wpc, wbranch>>
  /\ WorkerFrame

NextHang ==
  \/ Next
  \/ \E w \in Workers : ProcHang(w)

\* the goroutines that can run do run, and every child that does not hang
\* exits; the run has no loop, so fairness of the steps as a whole is enough
SpecHang == InitDispatch /\ [][NextHang]_vars /\ WF_vars(Next)

\* ------------------------------------------------------------------------
\* CSV profile attacher (single-column merge)
\* ------------------------------------------------------------------------
\* values a CSV field can have
FieldPool == { <<"a">>, <<"a", "b">> }

\* header rows of the input table ("s" is the summary column, "i" another)
HeaderPool ==
  { << <<"i">> >>, << <<"i">>, <<"s">> >>,
    << <<"s">>, <<"i">> >>, << <<"i">>, <<"n">> >> }

\* contents of a markdown profile
ContentPool == { <<>>, <<"a">>, <<"b">> }

\* file names a directory can hold, in the order os.ReadDir returns them
NamePool ==
  << [base |-> <<"a">>, ext |-> ".md"], [base |-> <<"a">>, ext |-> ".txt"],
     [base |-> <<"b">>, ext |-> ".md"], [base |-> <<"b">>, ext |-> ".txt"] >>

\* what an entry of a given name can be: a directory, a file that cannot be
\* read, or a readable file with one of the given contents
EntryKinds(n, contents) ==
  IF NamePool[n].ext = ".md"
  THEN {[kind |-> "dir", content |-> <<>>], [kind |-> "noperm", content |-> <<>>]}
        \cup {[kind |-> "file", content |-> c] : c \in contents}
  ELSE {[kind |-> "file", content |-> <<>>]}

\* the sorted listing of the names in S with the attributes k gives them
Listing(S, k) ==
  LET order == SortedSeq(S)
  IN [i \in 1..Len(order) |->
        [base |-> NamePool[order[i]].base, ext |-> NamePool[order[i]].ext,
         kind |-> k[order[i]].kind, content |-> k[order[i]].content]]

\* the directory listings of at most MaxArtifacts entries
Listings(contents) ==
  LET kinds == UNION {EntryKinds(n, contents) : n \in 1..Len(NamePool)}
  IN UNION { { Listing(S, k) :
                 k \in {g \in [S -> kinds] : \A n \in S : g[n] \in EntryKinds(n, contents)} } :
             S \in {T \in SUBSET (1..Len(NamePool)) : Cardinality(T) <= MaxArtifacts} }

\* a directory that cannot be listed, or one with a listing
DirPool(contents) ==
  {[ok |-> FALSE, entries |-> <<>>]}
    \cup {[ok |-> TRUE, entries |-> l] : l \in Listings(contents)}

\* data records of w fields
RowPool(w) ==
  IF w = 1 THEN {<<f>> : f \in FieldPool}
  ELSE {<<f, g>> : f \in FieldPool, g \in FieldPool}

RECURSIVE RowSeqs(_, _)
\* the sequences of at most n data records of w fields each
RowSeqs(n, w) ==
  IF n = 0 THEN {<<>>}
  ELSE LET shorter == RowSeqs(n - 1, w)
       IN shorter \cup {Append(q, r) : q \in {x \in shorter : Len(x) = n - 1},
                                       r \in RowPool(w)}

\* the CSV files: empty, or a header followed by at most MaxRows records of
\* one or of two fields (as many as the header has, or not)
CsvPool(headerPool) ==
  {<<>>} \cup {<<h>> \o q : h \in headerPool,
                            q \in RowSeqs(MaxRows, 1) \cup RowSeqs(MaxRows, 2)}

\* ReadAll yielding one record without fields for an empty file
ReadAllEmptyRecord(file) ==
  IF \E i \in 1..Len(file) : Len(file[i]) # Len(file[1])
  THEN [err |-> TRUE, records |-> <<>>]
  ELSE [err |-> FALSE, records |-> IF file = <<>> THEN << <<>> >> ELSE file]

\* csv.Reader.ReadAll with FieldsPerRecord = 0: every record must have as
\* many fields as the first one, else ErrFieldCount
ReadAll(file) ==
  IF \E i \in 1..Len(file) : Len(file[i]) # Len(file[1])
  THEN [err |-> TRUE, records |-> <<>>]
  ELSE [err |-> FALSE, records |-> file]

\* csv.Writer.WriteAll as the reader sees it again: a record that is one
\* empty field is written as a blank line, which the reader skips
WriteAll(recs) == SelectSeq(recs, LAMBDA r : r # << <<>> >>)

InitMerge ==
  /\ csvFile \in CsvPool(HeaderPool)
  /\ columnName = <<"s">>
  /\ profileDir \in DirPool(ContentPool)
  /\ mPc = "load"
  /\ records = <<>>
  /\ profileColIndex = 0
  /\ fileIdx = 0
  /\ attachedCount = 0
  /\ notFoundCount = 0
  /\ outputCSV = <<>>
  /\ run = 1
  /\ firstOutput = <<>>
  /\ DispatchIdle
  /\ AttachIdle
  /\ SplitIdle
  /\ SanitizeIdle

\* main, lines 37-58: read and parse the CSV file
MLoad ==
  /\ mPc = "load"
  /\ LET r == ReadAll(csvFile)
     IN IF r.err \/ Len(r.records) = 0
        THEN /\ mPc' = "exit1"
             /\ UNCHANGED records
        ELSE /\ records' = r.records
             /\ mPc' = "resolve"
  /\ UNCHANGED <<csvFile, columnName, profileDir, profileColIndex, fileIdx,
                 attachedCount, notFoundCount, outputCSV, run, firstOutput>>
  /\ UNCHANGED notMerge

RECURSIVE IndexOf(_, _, _)
\* the first position at or after i where name occurs in headers, or 0
IndexOf(headers, name, i) ==
  IF i > Len(headers) THEN 0
  ELSE IF headers[i] = name THEN i
  ELSE IndexOf(headers, name, i + 1)

\* PadOnce with the padding loop left out
PadOnceMissing(recs, width) == recs

\* main, lines 78-83: one empty field for each record shorter than the header
PadOnce(recs, width) ==
  [i \in 1..Len(recs) |->
     IF i > 1 /\ Len(recs[i]) < width THEN Append(recs[i], <<>>) ELSE recs[i]]

\* main, lines 60-84: find the target column or add it
MResolve ==
  /\ mPc = "resolve"
  /\ LET headers == records[1]
         found == IndexOf(headers, columnName, 1)
     IN IF found # 0
        THEN /\ profileColIndex' = found
             /\ UNCHANGED records
        ELSE LET added == Append(headers, columnName)
             IN /\ profileColIndex' = Len(added)
                /\ records' = PadOnce([records EXCEPT ![1] = added], Len(added))
  /\ mPc' = "readdir"
  /\ UNCHANGED <<csvFile, columnName, profileDir, fileIdx, attachedCount,
                 notFoundCount, outputCSV, run, firstOutput>>
  /\ UNCHANGED notMerge

\* main, lines 86-97: list the profile directory
MReadDir ==
  /\ mPc = "readdir"
  /\ IF profileDir.ok
     THEN /\ mPc' = "loop"
          /\ fileIdx' = 1
          /\ attachedCount' = 0
          /\ notFoundCount' = 0
     ELSE /\ mPc' = "exit1"
          /\ UNCHANGED <<fileIdx, attachedCount, notFoundCount>>
  /\ UNCHANGED <<csvFile, columnName, profileDir, records, profileColIndex,
                 outputCSV, run, firstOutput>>
  /\ UNCHANGED notMerge

\* ScanFields with the arguments of strings.Contains swapped
ScanFieldsSwapped(rec, base, j) ==
  LET hits == {k \in j..Len(rec) : Contains(base, rec[k])}
  IN IF hits = {} THEN 0 ELSE CHOOSE k \in hits : \A m \in hits : k <= m

RECURSIVE ScanFields(_, _, _)
\* main, lines 117-133: the first field at or after j containing base, or 0
ScanFields(rec, base, j) ==
  IF j > Len(rec) THEN 0
  ELSE IF Contains(rec[j], base) THEN j
  ELSE ScanFields(rec, base, j + 1)

\* ScanRecords without the break: the last matching record wins
ScanRecordsLast(recs, base, i) ==
  LET hits == {k \in i..Len(recs) :
                 \E j \in 1..Len(recs[k]) : Contains(recs[k][j], base)}
  IN IF hits = {} THEN 0 ELSE CHOOSE k \in hits : \A m \in hits : k >= m

RECURSIVE ScanRecords(_, _, _)
\* main, lines 115-137: the first record at or after i with such a field, or 0
ScanRecords(recs, base, i) ==
  IF i > Len(recs) THEN 0
  ELSE IF ScanFields(recs[i], base, 1) # 0 THEN i
  ELSE ScanRecords(recs, base, i + 1)

RECURSIVE PadTo(_, _)
\* main, lines 120-122: append empty fields until the record reaches col
PadTo(rec, col) == IF Len(rec) >= col THEN rec ELSE PadTo(Append(rec, <<>>), col)

\* Attach writing the content into the first column
AttachFirstColumn(recs, i, col, content) ==
  [recs EXCEPT ![i] = [PadTo(recs[i], col) EXCEPT ![1] = content]]

\* Attach appending the content to the value the column has
AttachAppend(recs, i, col, content) ==
  [recs EXCEPT ![i] = [PadTo(recs[i], col) EXCEPT ![col] = @ \o content]]

\* main, lines 119-125: write the content into the target column of record i
Attach(recs, i, col, content) ==
  [recs EXCEPT ![i] = [PadTo(recs[i], col) EXCEPT ![col] = content]]

\* IsProfile without the test of the suffix
IsProfileAnyFile(e) == e.kind # "dir"

\* main, line 101: the entries the loop processes
IsProfile(e) == e.kind # "dir" /\ e.ext = ".md"

\* main, lines 100-144: one iteration of the loop over the directory entries
MProcess ==
  /\ mPc = "loop"
  /\ fileIdx <= Len(profileDir.entries)
  /\ LET file == profileDir.entries[fileIdx]
         baseFilename == file.base
         row == ScanRecords(records, baseFilename, 2)
     IN IF ~IsProfile(file) \/ file.kind = "noperm"
        THEN UNCHANGED <<records, attachedCount, notFoundCount>>
        ELSE IF row # 0
             THEN /\ records' = Attach(records, row, profileColIndex, file.content)
                  /\ attachedCount' = attachedCount + 1
                  /\ UNCHANGED notFoundCount
             ELSE /\ notFoundCount' = notFoundCount + 1
                  /\ UNCHANGED <<records, attachedCount>>
  /\ fileIdx' = fileIdx + 1
  /\ UNCHANGED <<csvFile, columnName, profileDir, mPc, profileColIndex,
                 outputCSV, run, firstOutput>>
  /\ UNCHANGED notMerge

\* main, lines 146-176: write the table; os.Create can fail
MWrite ==
  /\ mPc = "loop"
  /\ fileIdx > Len(profileDir.entries)
  /\ \E ok \in BOOLEAN :
       IF ok
       THEN /\ outputCSV' = <<WriteAll(records)>>
            /\ mPc' = "done"
       ELSE /\ mPc' = "exit1"
            /\ UNCHANGED outputCSV
  /\ UNCHANGED <<csvFile, columnName, profileDir, records, profileColIndex,
                 fileIdx, attachedCount, notFoundCount, run, firstOutput>>
  /\ UNCHANGED notMerge

\* the tool is run again on the file it wrote, with the same directory
MRerun ==
  /\ mPc = "done"
  /\ run = 1
  /\ run' = 2
  /\ firstOutput' = outputCSV[1]
  /\ csvFile' = outputCSV[1]
  /\ mPc' = "load"
  /\ records' = <<>>
  /\ profileColIndex' = 0
  /\ fileIdx' = 0
  /\ attachedCount' = 0
  /\ notFoundCount' = 0
  /\ UNCHANGED <<columnName, profileDir, outputCSV>>
  /\ UNCHANGED notMerge

NextMerge ==
  \/ MLoad
  \/ MResolve
  \/ MReadDir
  \/ MProcess
  \/ MWrite
  \/ MRerun

SpecMerge == InitMerge /\ [][NextMerge]_vars

\* ------------------------------------------------------------------------
\* CSV message attacher (headline/body merge)
\* ------------------------------------------------------------------------
\* header rows of the input table ("h" headline, "d" body, "i" another)
MsgHeaderPool ==
  { << <<"i">> >>, << <<"i">>, <<"h">> >>,
    << <<"d">>, <<"i">> >>, << <<"h">>, <<"d">> >> }

\* contents of a markdown message
MsgContentPool == { <<>>, <<"a">>, <<"b", "\n", "a">> }

\* bufio.ScanLines drops one trailing carriage return of a line
DropCR(line) ==
  IF Len(line) > 0 /\ line[Len(line)] = "\r"
  THEN SubSeq(line, 1, Len(line) - 1)
  ELSE line

RECURSIVE ScanLines(_, _, _)
\* the lines bufio.Scanner yields: text up to each newline, and the text
\* after the last newline when it is not empty
ScanLines(data, i, cur) ==
  IF i > Len(data)
  THEN IF cur = <<>> THEN <<>> ELSE <<DropCR(cur)>>
  ELSE IF data[i] = "\n"
       THEN <<DropCR(cur)>> \o ScanLines(data, i + 1, <<>>)
       ELSE ScanLines(data, i + 1, Append(cur, data[i]))

\* readMarkdownFile treating a file without lines as an error
readMarkdownFileEmptyIsError(file) ==
  IF file.kind # "file"
  THEN [headline |-> <<>>, body |-> <<>>, err |-> TRUE]
  ELSE LET lines == ScanLines(file.content, 1, <<>>)
       IN IF Len(lines) = 0
          THEN [headline |-> <<>>, body |-> <<>>, err |-> TRUE]
          ELSE IF Len(lines) = 1
               THEN [headline |-> lines[1], body |-> <<>>, err |-> FALSE]
               ELSE [headline |-> lines[1], body |-> lines[2], err |-> FALSE]

\* readMarkdownFile: first and second line of the file, or an error
readMarkdownFile(file) ==
  IF file.kind # "file"
  THEN [headline |-> <<>>, body |-> <<>>, err |-> TRUE]
  ELSE LET lines == ScanLines(file.content, 1, <<>>)
       IN IF Len(lines) = 0
          THEN [headline |-> <<>>, body |-> <<>>, err |-> FALSE]
          ELSE IF Len(lines) = 1
               THEN [headline |-> lines[1], body |-> <<>>, err |-> FALSE]
               ELSE [headline |-> lines[1], body |-> lines[2], err |-> FALSE]

\* findHeaderIndex: index of the column, the header row, whether it was added
findHeaderIndex(headers, name) ==
  LET found == IndexOf(headers, name, 1)
  IN IF found # 0
     THEN [index |-> found, headers |-> headers, added |-> FALSE]
     ELSE [index |-> Len(headers) + 1, headers |-> Append(headers, name),
           added |-> TRUE]

RECURSIVE findMatchingMarkdown(_, _, _)
\* findMatchingMarkdown: the first entry at or after n that is a markdown
\* file whose base name some field of the row contains, or 0
findMatchingMarkdown(dir, csvRow, n) ==
  IF ~dir.ok \/ n > Len(dir.entries) THEN 0
  ELSE LET file == dir.entries[n]
       IN IF file.kind = "dir" \/ file.ext # ".md"
          THEN findMatchingMarkdown(dir, csvRow, n + 1)
          ELSE IF ScanFields(csvRow, file.base, 1) # 0 THEN n
          ELSE findMatchingMarkdown(dir, csvRow, n + 1)

\* PadAll with the padding left out
PadAllNone(recs, width) == recs

\* main, lines 158-165 and 173-176: pad every data record to the header
PadAll(recs, width) ==
  [i \in 1..Len(recs) |-> IF i > 1 THEN PadTo(recs[i], width) ELSE recs[i]]

InitAttach ==
  /\ msgCsvFile \in CsvPool(MsgHeaderPool)
  /\ headColumnName = <<"h">>
  /\ bodyColumnName \in { <<"d">>, <<"h">> }
  /\ messageDir \in DirPool(MsgContentPool)
  /\ aPc = "load"
  /\ msgRecords = <<>>
  /\ headColIndex = 0
  /\ bodyColIndex = 0
  /\ rowIdx = 0
  /\ msgAttachedCount = 0
  /\ msgNotFoundCount = 0
  /\ msgOutputCSV = <<>>
  /\ msgRun = 1
  /\ msgFirstOutput = <<>>
  /\ DispatchIdle
  /\ MergeIdle
  /\ SplitIdle
  /\ SanitizeIdle

\* main, lines 117-138: read and parse the CSV file
ALoad ==
  /\ aPc = "load"
  /\ LET r == ReadAll(msgCsvFile)
     IN IF r.err \/ Len(r.records) = 0
        THEN /\ aPc' = "exit1"
             /\ UNCHANGED msgRecords
        ELSE /\ msgRecords' = r.records
             /\ aPc' = "resolve"
  /\ UNCHANGED <<msgCsvFile, headColumnName, bodyColumnName, messageDir,
                 headColIndex, bodyColIndex, rowIdx, msgAttachedCount,
                 msgNotFoundCount, msgOutputCSV, msgRun, msgFirstOutput>>
  /\ UNCHANGED notAttach

\* main, lines 140-169: find or add the two columns, pad the records
AResolve ==
  /\ aPc = "resolve"
  /\ LET head == findHeaderIndex(msgRecords[1], headColumnName)
         body == findHeaderIndex(head.headers, bodyColumnName)
         withHeader == [msgRecords EXCEPT ![1] = body.headers]
     IN /\ headColIndex' = head.index
        /\ bodyColIndex' = body.index
        /\ msgRecords' = IF head.added \/ body.added
                         THEN PadAll(withHeader, Len(body.headers))
                         ELSE withHeader
  /\ rowIdx' = 2
  /\ msgAttachedCount' = 0
  /\ msgNotFoundCount' = 0
  /\ aPc' = "loop"
  /\ UNCHANGED <<msgCsvFile, headColumnName, bodyColumnName, messageDir,
                 msgOutputCSV, msgRun, msgFirstOutput>>
  /\ UNCHANGED notAttach

\* main, lines 172-201: one iteration of the loop over the data records
ARow ==
  /\ aPc = "loop"
  /\ rowIdx <= Len(msgRecords)
  /\ LET padded == [msgRecords EXCEPT
                      ![rowIdx] = PadTo(msgRecords[rowIdx], Len(msgRecords[1]))]
         found == findMatchingMarkdown(messageDir, padded[rowIdx], 1)
     IN IF found = 0
        THEN /\ msgRecords' = padded
             /\ msgNotFoundCount' = msgNotFoundCount + 1
             /\ UNCHANGED msgAttachedCount
        ELSE LET md == readMarkdownFile(messageDir.entries[found])
             IN IF md.err
                THEN /\ msgRecords' = padded
                     /\ msgNotFoundCount' = msgNotFoundCount + 1
                     /\ UNCHANGED msgAttachedCount
                ELSE /\ msgRecords' =
                          [padded EXCEPT
                             ![rowIdx] = [[padded[rowIdx]
                                            EXCEPT ![headColIndex] = md.headline]
                                            EXCEPT ![bodyColIndex] = md.body]]
                     /\ msgAttachedCount' = msgAttachedCount + 1
                     /\ UNCHANGED msgNotFoundCount
  /\ rowIdx' = rowIdx + 1
  /\ UNCHANGED <<msgCsvFile, headColumnName, bodyColumnName, messageDir, aPc,
                 headColIndex, bodyColIndex, msgOutputCSV, msgRun,
                 msgFirstOutput>>
  /\ UNCHANGED notAttach

\* main, lines 203-233: write the table; os.Create can fail
AWrite ==
  /\ aPc = "loop"
  /\ rowIdx > Len(msgRecords)
  /\ \E ok \in BOOLEAN :
       IF ok
       THEN /\ msgOutputCSV' = <<WriteAll(msgRecords)>>
            /\ aPc' = "done"
       ELSE /\ aPc' = "exit1"
            /\ UNCHANGED msgOutputCSV
  /\ UNCHANGED <<msgCsvFile, headColumnName, bodyColumnName, messageDir,
                 msgRecords, headColIndex, bodyColIndex, rowIdx,
                 msgAttachedCount, msgNotFoundCount, msgRun, msgFirstOutput>>
  /\ UNCHANGED notAttach

\* the tool is run again on the file it wrote, with the same directory
ARerun ==
  /\ aPc = "done"
  /\ msgRun = 1
  /\ msgRun' = 2
  /\ msgFirstOutput' = msgOutputCSV[1]
  /\ msgCsvFile' = msgOutputCSV[1]
  /\ aPc' = "load"
  /\ msgRecords' = <<>>
  /\ headColIndex' = 0
  /\ bodyColIndex' = 0
  /\ rowIdx' = 0
  /\ msgAttachedCount' = 0
  /\ msgNotFoundCount' = 0
  /\ UNCHANGED <<headColumnName, bodyColumnName, messageDir, msgOutputCSV>>
  /\ UNCHANGED notAttach

NextAttach ==
  \/ ALoad
  \/ AResolve
  \/ ARow
  \/ AWrite
  \/ ARerun

SpecAttach == InitAttach /\ [][NextAttach]_vars

\* either attacher is run on a table
SpecTables == (InitMerge \/ InitAttach) /\ [][NextMerge \/ NextAttach]_vars

\* ------------------------------------------------------------------------
\* JSONL splitter
\* ------------------------------------------------------------------------
\* the characters sanitizeFilename replaces
InvalidChars == {"\\", "/", ":", "*", "?", "\"", "<", ">", "|"}

\* regexp ReplaceAllString: every invalid character becomes an underscore
ReplaceInvalid(name) ==
  [i \in 1..Len(name) |-> IF name[i] \in InvalidChars THEN "_" ELSE name[i]]

RECURSIVE TrimLeft(_)
TrimLeft(t) ==
  IF Len(t) > 0 /\ IsSpace(t[1]) THEN TrimLeft(Tail(t)) ELSE t

RECURSIVE TrimRight(_)
TrimRight(t) ==
  IF Len(t) > 0 /\ IsSpace(t[Len(t)])
  THEN TrimRight(SubSeq(t, 1, Len(t) - 1))
  ELSE t

\* strings.TrimSpace
TrimSpace(t) == TrimRight(TrimLeft(t))

\* sanitizeFilename without the default for an empty result
sanitizeFilenameNoDefault(name) == TrimSpace(ReplaceInvalid(name))

\* sanitizeFilename
sanitizeFilename(name) ==
  LET sanitized == TrimSpace(ReplaceInvalid(name))
  IN IF sanitized = <<>> THEN <<"i", "t", "e", "m">> ELSE sanitized

Digits == <<"0", "1", "2", "3", "4", "5", "6", "7", "8", "9">>

RECURSIVE FormatInt(_)
\* the %d verb for a natural number
FormatInt(n) ==
  IF n < 10 THEN <<Digits[n + 1]>>
  ELSE FormatInt(n \div 10) \o <<Digits[(n % 10) + 1]>>

\* fmt.Sprintf("%s_%d", prefix, n)
Suffixed(prefix, n) == prefix \o <<"_">> \o FormatInt(n)

\* main, lines 85-95: the prefix of a record, from its publicIdentifier or
\* from the fallback prefix and the line number
prefixOf(line, lineNo, fallback) ==
  IF line.kind = "id"
  THEN sanitizeFilename(line.id)
  ELSE Suffixed(fallback, lineNo)

\* resolveDuplicate with the first occurrence registered with count 0
resolveDuplicateFromZero(used, basePrefix) ==
  IF basePrefix \in DOMAIN used
  THEN LET count == used[basePrefix] + 1
       IN [prefix |-> Suffixed(basePrefix, count),
           used |-> [used EXCEPT ![basePrefix] = count]]
  ELSE [prefix |-> basePrefix,
        used |-> [n \in DOMAIN used \cup {basePrefix} |->
                    IF n = basePrefix THEN 0 ELSE used[n]]]

\* main, lines 97-105: the duplicate handling; the prefix to use and the
\* updated map
resolveDuplicate(used, basePrefix) ==
  IF basePrefix \in DOMAIN used
  THEN LET count == used[basePrefix] + 1
       IN [prefix |-> Suffixed(basePrefix, count),
           used |-> [used EXCEPT ![basePrefix] = count]]
  ELSE [prefix |-> basePrefix,
        used |-> [n \in DOMAIN used \cup {basePrefix} |->
                    IF n = basePrefix THEN 1 ELSE used[n]]]

\* values of publicIdentifier the model draws from
IdPool ==
  { <<"a">>, <<"a", "_", "2">>, <<"a", "/", "2">>, <<" ">>,
    <<"i", "t", "e", "m">> }

\* the lines of a JSONL file: blank, not JSON, JSON without publicIdentifier,
\* JSON whose publicIdentifier is not a string, JSON with a string one
LinePool ==
  {[kind |-> k, id |-> <<>>] : k \in {"blank", "invalid", "noid", "nonstring"}}
    \cup {[kind |-> "id", id |-> v] : v \in IdPool}

InitSplit ==
  /\ inputLines \in UNION {[1..n -> LinePool] : n \in 0..MaxLines}
  /\ fallbackPrefix = <<"i", "t", "e", "m">>
  /\ sPc = "open"
  /\ lineCount = 0
  /\ successCount = 0
  /\ usedFilenames = <<>>
  /\ candidates = <<>>
  /\ tokens = <<>>
  /\ outputFiles = {}
  /\ DispatchIdle
  /\ MergeIdle
  /\ AttachIdle
  /\ SanitizeIdle

\* main, lines 39-66: create the output directory and open the input file
SOpen ==
  /\ sPc = "open"
  /\ \E ok \in BOOLEAN : sPc' = IF ok THEN "scan" ELSE "exit1"
  /\ UNCHANGED <<inputLines, fallbackPrefix, lineCount, successCount,
                 usedFilenames, candidates, tokens, outputFiles>>
  /\ UNCHANGED notSplit

\* main, lines 69-83: a line that is blank or is not JSON is skipped
SSkip ==
  /\ sPc = "scan"
  /\ lineCount < Len(inputLines)
  /\ inputLines[lineCount + 1].kind \in {"blank", "invalid"}
  /\ lineCount' = lineCount + 1
  /\ UNCHANGED <<inputLines, fallbackPrefix, sPc, successCount, usedFilenames,
                 candidates, tokens, outputFiles>>
  /\ UNCHANGED notSplit

\* main, lines 69-143: a record gets its prefix and its file; os.Create or
\* the write can fail
SRecord ==
  /\ sPc = "scan"
  /\ lineCount < Len(inputLines)
  /\ inputLines[lineCount + 1].kind \notin {"blank", "invalid"}
  /\ lineCount' = lineCount + 1
  /\ LET basePrefix == prefixOf(inputLines[lineCount + 1], lineCount + 1, fallbackPrefix)
         r == resolveDuplicate(usedFilenames, basePrefix)
     IN /\ usedFilenames' = r.used
        /\ candidates' = Append(candidates, basePrefix)
        /\ tokens' = Append(tokens, r.prefix)
        /\ \E outcome \in {"ok", "createfail", "writefail"} :
             /\ outputFiles' = IF outcome = "createfail"
                               THEN outputFiles
                               ELSE outputFiles \cup {r.prefix \o <<".", "j", "s", "o", "n">>}
             /\ successCount' = IF outcome = "ok" THEN successCount + 1 ELSE successCount
  /\ UNCHANGED <<inputLines, fallbackPrefix, sPc>>
  /\ UNCHANGED notSplit

\* main, lines 145-152: end of input, or a read error of the scanner
SFinish ==
  /\ sPc = "scan"
  /\ \/ lineCount = Len(inputLines) /\ sPc' = "done"
     \/ sPc' = "exit1"
  /\ UNCHANGED <<inputLines, fallbackPrefix, lineCount, successCount,
                 usedFilenames, candidates, tokens, outputFiles>>
  /\ UNCHANGED notSplit

NextSplit ==
  \/ SOpen
  \/ SSkip
  \/ SRecord
  \/ SFinish

SpecSplit == InitSplit /\ [][NextSplit]_vars

\* ------------------------------------------------------------------------
\* sanitizeFilename called on its own
\* ------------------------------------------------------------------------
\* the characters of the strings handed to it: a letter, two kinds of
\* whitespace, two of the characters it replaces
NameChars == {"a", " ", "\t", "/", "|"}

\* the strings of at most MaxNameLen characters
NamePoolSanitize == UNION {[1..n -> NameChars] : n \in 0..MaxNameLen}

InitSanitize ==
  /\ sanInput \in NamePoolSanitize
  /\ sanOutput = <<>>
  /\ sanAgain = <<>>
  /\ nPc = "call"
  /\ DispatchIdle
  /\ MergeIdle
  /\ AttachIdle
  /\ SplitIdle

\* sanitizeFilename(sanInput)
Sanitize ==
  /\ nPc = "call"
  /\ sanOutput' = <<sanitizeFilename(sanInput)>>
  /\ nPc' = "again"
  /\ UNCHANGED <<sanInput, sanAgain>>
  /\ UNCHANGED notSanitize

\* sanitizeFilename applied to its own result
SanitizeAgain ==
  /\ nPc = "again"
  /\ sanAgain' = <<sanitizeFilename(sanOutput[1])>>
  /\ nPc' = "done"
  /\ UNCHANGED <<sanInput, sanOutput>>
  /\ UNCHANGED notSanitize

NextSanitize ==
  \/ Sanitize
  \/ SanitizeAgain

SpecSanitize == InitSanitize /\ [][NextSanitize]_vars

\* ------------------------------------------------------------------------
\* sanitizeFilename: properties
\* ------------------------------------------------------------------------
\* the positions of sanInput that hold no whitespace
Solid == {i \in 1..Len(sanInput) : ~IsSpace(sanInput[i])}

\* C11: the result of sanitizeFilename is "item" when the input holds only
\* whitespace; otherwise it is the input from its first to its last
\* non-whitespace character with each of \ / : * ? " < > | turned into "_".
\* It is never empty, holds none of those characters, neither starts nor
\* ends with whitespace, and sanitizing it again returns it unchanged.
C11_Sanitize ==
  /\ nPc \in {"again", "done"} =>
       LET out == sanOutput[1]
       IN /\ IF Solid = {}
             THEN out = <<"i", "t", "e", "m">>
             ELSE LET lo == CHOOSE i \in Solid : \A j \in Solid : i <= j
                      hi == CHOOSE i \in Solid : \A j \in Solid : i >= j
                  IN /\ Len(out) = hi - lo + 1
                     /\ \A k \in 1..Len(out) :
                          out[k] = IF sanInput[lo + k - 1] \in InvalidChars
                                   THEN "_"
                                   ELSE sanInput[lo + k - 1]
          /\ Len(out) > 0
          /\ \A k \in 1..Len(out) : out[k] \notin InvalidChars
          /\ ~IsSpace(out[1])
          /\ ~IsSpace(out[Len(out)])
  /\ nPc = "done" => sanAgain = sanOutput

\* a string with surrounding whitespace around a replaced character has
\* been sanitized, and the result sanitized again
C11_Witness ==
  /\ nPc = "done"
  /\ sanInput = <<" ", "/", "\t">>
  /\ sanOutput = << <<"_">> >>
  /\ sanAgain = << <<"_">> >>

\* ------------------------------------------------------------------------
\* JSONL splitter: properties
\* ------------------------------------------------------------------------
\* how many of the first k - 1 candidates equal the k-th one
EarlierSame(k) == Cardinality({j \in 1..(k - 1) : candidates[j] = candidates[k]})

\* C9 as stated: the tokens a, a, a come out as a, a_1, a_2.
\* (Fails: the count starts at 1, so the first repeat is numbered 2.)
C9_Original ==
  candidates = << <<"a">>, <<"a">>, <<"a">> >> =>
    tokens = << <<"a">>, <<"a", "_", "1">>, <<"a", "_", "2">> >>

\* C9 amended: a, a, a come out as a, a_2, a_3; the first occurrence of a
\* token is returned unchanged and its k-th repeat as "<token>_<k+1>".
C9_RepeatNumbering ==
  /\ Len(tokens) = Len(candidates)
  /\ \A k \in 1..Len(tokens) :
       tokens[k] = IF EarlierSame(k) = 0
                   THEN candidates[k]
                   ELSE Suffixed(candidates[k], EarlierSame(k) + 1)
  /\ candidates = << <<"a">>, <<"a">>, <<"a">> >> =>
       tokens = << <<"a">>, <<"a", "_", "2">>, <<"a", "_", "3">> >>

\* C9 witness: the three records a, a, a were all given their names
C9_Witness ==
  /\ sPc = "done"
  /\ candidates = << <<"a">>, <<"a">>, <<"a">> >>
  /\ Len(tokens) = 3

\* C10: the tokens returned within one run are pairwise distinct, so no two
\* records are written to the same file.
\* (Fails: a suffixed token can equal a candidate that comes unsuffixed.)
C10_TokensDistinct ==
  \A j, k \in 1..Len(tokens) : j # k => tokens[j] # tokens[k]

\* ------------------------------------------------------------------------
\* CSV profile attacher: properties
\* ------------------------------------------------------------------------
\* record i of table t has a field containing base
RowHas(t, i, base) == \E j \in 1..Len(t[i]) : Contains(t[i][j], base)

\* the entry the loop step in progress is processing
CurrentFile == profileDir.entries[fileIdx]

\* the step is one iteration of the loop over a readable markdown entry
AttachStep ==
  /\ mPc = "loop"
  /\ fileIdx' = fileIdx + 1
  /\ IsProfile(CurrentFile)
  /\ CurrentFile.kind = "file"

\* C5 (step): the iteration for an artifact writes its content into the
\* target column of the first data record, in table order, that has a field
\* containing the base identifier, and leaves every other record as it was.
C5_Step ==
  AttachStep =>
    /\ Len(records') = Len(records)
    /\ \A i \in 2..Len(records) :
         IF RowHas(records, i, CurrentFile.base)
            /\ \A k \in 2..(i - 1) : ~RowHas(records, k, CurrentFile.base)
         THEN /\ records'[i][profileColIndex] = CurrentFile.content
              /\ \A j \in 1..Len(records[i]) :
                   j # profileColIndex => records'[i][j] = records[i][j]
         ELSE records'[i] = records[i]

\* C5: each artifact is attached to exactly the first matching data record
\* and modifies at most that one record.
C5_FirstMatchOnly == [][C5_Step]_vars

\* C5 witness: the first artifact was attached to the first of two data
\* records that both contain its base identifier outside the target column,
\* and the second one was not written
C5_Witness ==
  /\ mPc = "loop"
  /\ fileIdx = 2
  /\ attachedCount = 1
  /\ Len(records) = 3
  /\ profileColIndex = 2
  /\ Contains(records[2][1], profileDir.entries[1].base)
  /\ Contains(records[3][1], profileDir.entries[1].base)
  /\ records[2][2] = profileDir.entries[1].content
  /\ records[3][2] # profileDir.entries[1].content

\* C6: merging again, with the same artifacts, into the table the first
\* merge wrote leaves the target column of every record as the first merge
\* left it.  (Fails: the match also looks at the target column, so values
\* written by the first merge change which record an artifact matches.)
C6_MergeIdempotent ==
  (run = 2 /\ mPc = "done") =>
    /\ Len(outputCSV[1]) = Len(firstOutput)
    /\ \A i \in 2..Len(firstOutput) :
         outputCSV[1][i][profileColIndex] = firstOutput[i][profileColIndex]

\* C8 (step): an artifact that no data record contains adds one to
\* notFound, nothing to attached, and leaves the whole table unchanged.
C8_Step ==
  (AttachStep /\ \A i \in 2..Len(records) : ~RowHas(records, i, CurrentFile.base)) =>
    /\ notFoundCount' = notFoundCount + 1
    /\ attachedCount' = attachedCount
    /\ records' = records

\* C8 (state): the table has as many records during and after the merge as
\* the file that was loaded.
C8_State ==
  mPc \in {"resolve", "readdir", "loop", "done"} => Len(records) = Len(csvFile)

\* C8: an unmatched artifact counts once as notFound and changes no record;
\* the number of records never changes.
C8_NoMatchLeavesTable == [][C8_Step]_vars /\ []C8_State

\* C8 witness: an artifact was counted as not found in a table with records
C8_Witness ==
  /\ mPc = "done"
  /\ run = 1
  /\ notFoundCount >= 1
  /\ attachedCount >= 1
  /\ Len(records) >= 3

\* ------------------------------------------------------------------------
\* Both attachers: column creation
\* ------------------------------------------------------------------------
\* name occurs in the header row
InHeader(headers, name) == \E j \in 1..Len(headers) : headers[j] = name

\* the header row after name was requested: unchanged when name is present,
\* else with exactly one entry for it appended
Requested(headers, name) ==
  IF InHeader(headers, name) THEN headers ELSE Append(headers, name)

\* col is the first position of name in the header row
FirstAt(headers, name, col) ==
  /\ col \in 1..Len(headers)
  /\ headers[col] = name
  /\ \A j \in 1..(col - 1) : headers[j] # name

\* every data record of t is the record of the loaded file followed by empty
\* fields up to the width of the header of t
PaddedFrom(file, t) ==
  /\ Len(t) = Len(file)
  /\ \A i \in 2..Len(t) : t[i] = file[i] \o Blanks(Len(t[1]) - Len(file[i]))

C7_Profile ==
  mPc \in {"readdir", "loop", "done"} =>
    /\ records[1] = Requested(csvFile[1], columnName)
    /\ FirstAt(records[1], columnName, profileColIndex)
    /\ \A i \in 2..Len(records) : Len(records[i]) = Len(records[1])
    /\ (mPc = "readdir" \/ fileIdx = 1) => PaddedFrom(csvFile, records)

C7_Message ==
  aPc \in {"loop", "done"} =>
    /\ msgRecords[1] =
         Requested(Requested(msgCsvFile[1], headColumnName), bodyColumnName)
    /\ FirstAt(msgRecords[1], headColumnName, headColIndex)
    /\ FirstAt(msgRecords[1], bodyColumnName, bodyColIndex)
    /\ \A i \in 2..Len(msgRecords) : Len(msgRecords[i]) = Len(msgRecords[1])
    /\ rowIdx = 2 => PaddedFrom(msgCsvFile, msgRecords)

\* C7: a requested column that the header lacks is appended exactly once, a
\* present one keeps its index, and before any artifact value is written
\* every data record is the loaded record padded with empty fields to the
\* width of the new header (both attachers).
C7_ColumnCreation == C7_Profile /\ C7_Message

\* C7 witness: the column was added to a table with two data records, which
\* are padded, and no artifact has been processed yet
C7_Witness ==
  /\ mPc = "readdir"
  /\ ~InHeader(csvFile[1], columnName)
  /\ Len(records[1]) = Len(csvFile[1]) + 1
  /\ Len(records) = 3
  /\ Len(records[3]) = Len(csvFile[3]) + 1

\* C14 (single-column mode): a table file without records ends the run with
\* status 1 before a column is resolved, the directory is listed, an
\* artifact is read or the output is written.
C14_Profile ==
  (mPc \notin {"off", "load"} /\ csvFile = <<>>) =>
    /\ mPc = "exit1"
    /\ records = <<>>
    /\ profileColIndex = 0
    /\ fileIdx = 0
    /\ attachedCount = 0
    /\ notFoundCount = 0
    /\ outputCSV = <<>>

\* C14 (headline/body mode): the same for the message attacher.
C14_Message ==
  (aPc \notin {"off", "load"} /\ msgCsvFile = <<>>) =>
    /\ aPc = "exit1"
    /\ msgRecords = <<>>
    /\ headColIndex = 0
    /\ bodyColIndex = 0
    /\ rowIdx = 0
    /\ msgAttachedCount = 0
    /\ msgNotFoundCount = 0
    /\ msgOutputCSV = <<>>

\* C14: a table with zero records makes the merge fail fatally in both
\* modes: exit status 1, no column resolved, no artifact read, and the
\* output table never created or overwritten.
C14_EmptyTableFatal == C14_Profile /\ C14_Message

\* C14 witness: either attacher has exited on an empty table file although
\* its directory is readable and holds an artifact
C14_Witness ==
  \/ /\ mPc = "exit1"
     /\ csvFile = <<>>
     /\ profileDir.ok
     /\ Len(profileDir.entries) >= 1
  \/ /\ aPc = "exit1"
     /\ msgCsvFile = <<>>
     /\ messageDir.ok
     /\ Len(messageDir.entries) >= 1

\* the text of t before its first line feed (all of it when it has none)
UpToLineFeed(t) ==
  LET feeds == {i \in 1..Len(t) : t[i] = "\n"}
  IN IF feeds = {} THEN t
     ELSE SubSeq(t, 1, (CHOOSE i \in feeds : \A j \in feeds : i <= j) - 1)

\* the text of t after its first line feed (nothing when it has none)
AfterLineFeed(t) ==
  LET feeds == {i \in 1..Len(t) : t[i] = "\n"}
  IN IF feeds = {} THEN <<>>
     ELSE SubSeq(t, (CHOOSE i \in feeds : \A j \in feeds : i <= j) + 1, Len(t))

\* the entries of the message directory that are markdown files whose base
\* name occurs in a field of record i
MsgMatches(i) ==
  {n \in 1..Len(messageDir.entries) :
     /\ messageDir.entries[n].kind # "dir"
     /\ messageDir.entries[n].ext = ".md"
     /\ RowHas(msgRecords, i, messageDir.entries[n].base)}

\* C15 (step): when the loop handles a record whose first matching artifact
\* can be read, and the headline and body columns are two columns, the
\* record gets the first line in the headline column and the second line
\* in the body column (empty when there is none, both empty for an empty
\* artifact), attached grows by one and notFound stays.
C15_Step ==
  (aPc = "loop" /\ rowIdx' = rowIdx + 1 /\ MsgMatches(rowIdx) # {}
     /\ headColIndex # bodyColIndex) =>
    LET first == CHOOSE n \in MsgMatches(rowIdx) : \A m \in MsgMatches(rowIdx) : n <= m
        artifact == messageDir.entries[first]
    IN artifact.kind = "file" =>
         /\ msgRecords'[rowIdx][headColIndex] = UpToLineFeed(artifact.content)
         /\ msgRecords'[rowIdx][bodyColIndex] =
              UpToLineFeed(AfterLineFeed(artifact.content))
         /\ msgAttachedCount' = msgAttachedCount + 1
         /\ msgNotFoundCount' = msgNotFoundCount

\* C15: in the headline/body mode a matched artifact writes its first line
\* to the headline column and its second line to the body column; one line
\* gives an empty body; an empty artifact gives two empty values and is
\* counted as attached.
C15_HeadlineBody == [][C15_Step]_vars

\* C15 witness: two records were attached, the first from an artifact of
\* two lines, with the headline and body in two columns
C15_Witness ==
  /\ aPc = "loop"
  /\ msgAttachedCount = 2
  /\ headColIndex # bodyColIndex
  /\ msgRecords[2][headColIndex] = <<"b">>
  /\ msgRecords[2][bodyColIndex] = <<"a">>

\* the value record i of table t has in column col (empty when it is short)
ValueAt(t, i, col) == IF col <= Len(t[i]) THEN t[i][col] ELSE <<>>

\* the data records whose target column the step changes
Rewritten ==
  {i \in 2..Len(records) :
     ValueAt(records', i, profileColIndex) # ValueAt(records, i, profileColIndex)}

\* C22 (step): an iteration of the loop changes the target column of at most
\* one record; the new value is the content of the artifact of that
\* iteration and nothing else, and the iteration is counted as attached. So
\* the value a record is left with is the content of the last artifact that
\* was attached to it.
C22_Step ==
  (mPc = "loop" /\ mPc' = "loop") =>
    /\ Cardinality(Rewritten) <= 1
    /\ \A i \in Rewritten :
         /\ records'[i][profileColIndex] = CurrentFile.content
         /\ attachedCount' = attachedCount + 1

\* C22: a write to the target column replaces the previous value and never
\* appends to it, and when several artifacts are attached to the same record
\* the value left is the content of the last of them.
C22_LastWriteReplaces == [][C22_Step]_vars

\* C22 witness: two artifacts with different non-empty contents were
\* attached to the only data record, which holds the content of the second
C22_Witness ==
  /\ mPc = "loop"
  /\ fileIdx = 3
  /\ attachedCount = 2
  /\ Len(records) = 2
  /\ profileDir.entries[1].content = <<"a">>
  /\ profileDir.entries[2].content = <<"b">>
  /\ records[2][profileColIndex] = <<"b">>

\* every data record of t has at least as many fields as the header, and
\* column col exists in the header and so in every record
Wide(t, col) ==
  /\ col \in 1..Len(t[1])
  /\ \A i \in 2..Len(t) : Len(t[i]) >= Len(t[1])

\* table u has the records of table t, none of them shorter
NotShortened(t, u) ==
  /\ Len(u) = Len(t)
  /\ \A i \in 1..Len(t) : Len(u[i]) >= Len(t[i])

\* C23 (state part): from the column resolution on, in both modes, every
\* data record is at least as long as the header and the target columns lie
\* inside every record, so the writes of artifact values are in bounds.
C23_State ==
  /\ profileColIndex # 0 => Wide(records, profileColIndex)
  /\ headColIndex # 0 =>
       /\ Wide(msgRecords, headColIndex)
       /\ Wide(msgRecords, bodyColIndex)

\* C23 (step part): no step of a run drops a record or shortens one.
C23_Step ==
  /\ (run' = run /\ records # <<>>) => NotShortened(records, records')
  /\ (msgRun' = msgRun /\ msgRecords # <<>>) => NotShortened(msgRecords, msgRecords')

\* C23: after column resolution and at every later step of a merge, in both
\* modes, every data record has at least as many fields as the header, no
\* record is ever shortened, and every write of an artifact value is inside
\* the written record.
C23_RecordsWideEnough == []C23_State /\ [][C23_Step]_vars

\* C23 witness: the headline and the body column were both added and a
\* record was written
C23_Witness ==
  /\ aPc = "loop"
  /\ Len(msgRecords[1]) = Len(msgCsvFile[1]) + 2
  /\ msgAttachedCount >= 1
  /\ msgRecords[2][bodyColIndex] # <<>>

\* the first data record of table t with a field containing base, or 0
FirstWith(t, base) ==
  LET hits == {i \in 2..Len(t) : RowHas(t, i, base)}
  IN IF hits = {} THEN 0 ELSE CHOOSE i \in hits : \A k \in hits : i <= k

\* C27 (step): the record an artifact is attached to is the first record
\* that contains the artifact's base identifier in the table as it was
\* loaded.
\* (Fails: the match reads the target column too, so the content an earlier
\* artifact wrote there can make a record match a later artifact.)
C27_Step ==
  (AttachStep /\ attachedCount' = attachedCount + 1) =>
    FirstWith(records, CurrentFile.base) = FirstWith(csvFile, CurrentFile.base)

\* C27: in the single-column merge the record an artifact is attached to
\* depends only on the field values the table had when it was loaded.
C27_MatchOnLoadedValues == [][C27_Step]_vars

\* table t holds the loaded table outside the columns in targets: the
\* header keeps its names in order and gains only names in asked that it did
\* not have, the data records are as many and in the same order, and every
\* field outside the target columns has the value it was loaded with
Framed(loaded, t, targets, asked) ==
  /\ Len(t) = Len(loaded)
  /\ Len(t[1]) >= Len(loaded[1])
  /\ \A j \in 1..Len(loaded[1]) : t[1][j] = loaded[1][j]
  /\ \A j \in (Len(loaded[1]) + 1)..Len(t[1]) :
       t[1][j] \in asked /\ ~InHeader(loaded[1], t[1][j])
  /\ \A i \in 2..Len(t) :
       /\ Len(t[i]) >= Len(loaded[i])
       /\ \A j \in 1..Len(t[i]) :
            j \notin targets =>
              j <= Len(loaded[i]) /\ t[i][j] = loaded[i][j]

\* C28 (state, single-column merge): outside the target column the table
\* in memory and the table written are the table as loaded.
C28_Profile ==
  /\ (mPc \in {"resolve", "readdir", "loop", "done"} /\ records # <<>>) =>
       Framed(csvFile, records, {profileColIndex}, {columnName})
  /\ (mPc = "done" /\ outputCSV # <<>>) =>
       Framed(csvFile, outputCSV[1], {profileColIndex}, {columnName})

\* C28 (state, headline/body merge): the same for the two target columns.
C28_Message ==
  /\ (aPc \in {"resolve", "loop", "done"} /\ msgRecords # <<>>) =>
       Framed(msgCsvFile, msgRecords, {headColIndex, bodyColIndex},
              {headColumnName, bodyColumnName})
  /\ (aPc = "done" /\ msgOutputCSV # <<>>) =>
       Framed(msgCsvFile, msgOutputCSV[1], {headColIndex, bodyColIndex},
              {headColumnName, bodyColumnName})

\* C28 (step): a record that no artifact matches keeps its target column
\* value: an iteration of the single-column merge changes no record but one
\* that contains the artifact's base identifier, and an iteration of the
\* headline/body merge changes no record but the current one, whose target
\* columns keep their values when no message is attached to it.
C28_Step ==
  /\ (mPc = "loop" /\ fileIdx' = fileIdx + 1) =>
       \A i \in 1..Len(records) :
         records'[i] # records[i] => i >= 2 /\ RowHas(records, i, CurrentFile.base)
  /\ (aPc = "loop" /\ rowIdx' = rowIdx + 1) =>
       /\ \A i \in 1..Len(msgRecords) :
            i # rowIdx => msgRecords'[i] = msgRecords[i]
       /\ msgAttachedCount' = msgAttachedCount =>
            \A col \in {headColIndex, bodyColIndex} :
              ValueAt(msgRecords', rowIdx, col) = ValueAt(msgRecords, rowIdx, col)

\* C28: a merge in either mode changes only the target column(s): the
\* header keeps its names in order with at most the requested names appended,
\* the data records keep their order, every field outside the target
\* column(s) keeps the value it was loaded with, and a record matched by no
\* artifact keeps its target column value.
C28_OnlyTargetColumnsChange ==
  []C28_Profile /\ []C28_Message /\ [][C28_Step]_vars

\* a headline/body merge has been written in which one record received a
\* message, another received none, and a column that is not a target holds
\* a value
C28_Witness ==
  /\ aPc = "done"
  /\ msgOutputCSV # <<>>
  /\ msgRun = 1
  /\ Len(msgRecords) = 3
  /\ msgAttachedCount = 1
  /\ msgNotFoundCount = 1
  /\ Len(msgRecords[1]) > Len(msgCsvFile[1])
  /\ \E j \in 1..Len(msgCsvFile[1]) :
       /\ j \notin {headColIndex, bodyColIndex}
       /\ msgRecords[2][j] # <<>>
       /\ msgRecords[3][j] # <<>>

\* the positions before n of the profile directory's entries that are not
\* directories and end in .md
RecognizedBefore(n) ==
  {k \in 1..(n - 1) : profileDir.entries[k].kind # "dir"
                        /\ profileDir.entries[k].ext = ".md"}

\* C29 (state): while every recognized artifact met so far was readable,
\* attached + notFound is the number of recognized artifacts met so far; at
\* the end that is the number of recognized artifacts of the directory.
C29_State ==
  (/\ mPc \in {"loop", "done"}
   /\ \A k \in RecognizedBefore(fileIdx) : profileDir.entries[k].kind = "file")
  => /\ attachedCount + notFoundCount = Cardinality(RecognizedBefore(fileIdx))
     /\ mPc = "done" => fileIdx = Len(profileDir.entries) + 1

\* C29 (step): an entry that is a directory or lacks the .md suffix changes
\* neither counter nor the table; a readable recognized artifact raises
\* exactly one of the counters, by one.
C29_Step ==
  (mPc = "loop" /\ fileIdx' = fileIdx + 1) =>
    IF CurrentFile.kind = "dir" \/ CurrentFile.ext # ".md"
    THEN UNCHANGED <<records, attachedCount, notFoundCount>>
    ELSE CurrentFile.kind = "file" =>
           \/ attachedCount' = attachedCount + 1 /\ notFoundCount' = notFoundCount
           \/ attachedCount' = attachedCount /\ notFoundCount' = notFoundCount + 1

\* C29: when the single-column merge finishes with every recognized artifact
\* readable, attached + notFound is the number of recognized artifacts, each
\* counted once; directories and entries without the .md suffix change
\* neither counter nor the table.
C29_CountsCoverArtifacts == []C29_State /\ [][C29_Step]_vars

\* a merge has finished on a directory holding a recognized artifact that
\* was attached and an entry without the .md suffix whose name occurs in
\* the table
C29_Witness ==
  /\ mPc = "done"
  /\ Len(profileDir.entries) = 2
  /\ attachedCount = 1
  /\ notFoundCount = 0
  /\ \E k \in 1..2 :
       /\ profileDir.entries[k].ext # ".md"
       /\ profileDir.entries[k].kind = "file"
       /\ \E i \in 2..Len(csvFile) : RowHas(csvFile, i, profileDir.entries[k].base)

\* C30 (state): the per-kind counters add up to the successes.
C30_State == stats.JSONFiles + stats.MDFiles = stats.Successful

\* C30 (step): a success raises exactly one per-kind counter, by one; a
\* failed or skipped job raises neither.
C30_Step ==
  LET kinds == stats.JSONFiles + stats.MDFiles
      kindsAfter == stats.JSONFiles' + stats.MDFiles'
  IN /\ stats.Successful' = stats.Successful + 1 =>
          /\ kindsAfter = kinds + 1
          /\ stats.JSONFiles' >= stats.JSONFiles
          /\ stats.MDFiles' >= stats.MDFiles
     /\ (stats.Failed' # stats.Failed \/ stats.Skipped' # stats.Skipped) =>
          /\ stats.JSONFiles' = stats.JSONFiles
          /\ stats.MDFiles' = stats.MDFiles
          /\ stats.Successful' = stats.Successful

MsgArtifacts ==
  {n \in 1..Len(messageDir.entries) :
     messageDir.entries[n].kind # "dir" /\ messageDir.entries[n].ext = ".md"}

\* C21: in the headline/body mode each artifact is written to at most one
\* data record per run, so attached never exceeds the number of artifacts,
\* and at the end of the loop notFound is the number of artifacts whose base
\* identifier occurs in no data record.
\* (Fails: the loop runs over the records and looks up an artifact for each,
\* so one artifact is written to every record that matches it, and notFound
\* counts records.)
C21_PerArtifact ==
  aPc \in {"loop", "done"} =>
    /\ msgAttachedCount <= Cardinality(MsgArtifacts)
    /\ rowIdx > Len(msgRecords) =>
         msgNotFoundCount =
           Cardinality({n \in MsgArtifacts :
                          \A i \in 2..Len(msgCsvFile) :
                            ~RowHas(msgCsvFile, i, messageDir.entries[n].base)})

\* ------------------------------------------------------------------------
\* Dispatcher: properties
\* ------------------------------------------------------------------------
\* the files main enumerated, as worker indices
Enumerated == 1..Len(inputFiles)

\* fabric subprocesses that were started and have not exited
RunningProcs ==
  {w \in Workers : proc[w] \in {"running", "nostdin", "hung", "hungclosed"}}

\* workers that were launched and have not returned from processFile
InProcessFile ==
  {w \in Workers : wpc[w] \in {"begin", "read", "pipe", "spawn", "write",
                               "wait", "log", "logging", "count", "counting"}}

\* C1: at every instant the number of fabric subprocesses that have been
\* started and have not yet exited is at most MaxWorkers, whichever jobs fail.
\* (Fails: a job whose stdin write fails returns without waiting for its
\* child, so the slot is released while the child may still be running.)
C1_SubprocessBound == Cardinality(RunningProcs) <= config.MaxWorkers

\* C2: once all workers are joined, Total = Successful + Failed + Skipped,
\* and Total is the number of enumerated artifacts.
C2_TotalsBalance ==
  mainPc \in {"summary", "done"} =>
    /\ stats.Total = stats.Successful + stats.Failed + stats.Skipped
    /\ stats.Total = Len(inputFiles)

\* C2 witness: a completed run with at least one success and one failure
C2_Witness ==
  /\ mainPc = "done"
  /\ stats.Successful >= 1
  /\ stats.Failed >= 1

\* C3: the statistics are read for the completion message only after every
\* launched job has finished; no worker is inside processFile (or still
\* holding its slot) once main is past wg.Wait.
C3_SummaryAfterJoin ==
  (mainPc \in {"summary", "done"} \/ summary # <<>>) =>
    /\ InProcessFile = {}
    /\ \A w \in Enumerated : wpc[w] = "done"

\* C3 witness: the summary was produced for a run of at least two jobs
C3_Witness ==
  /\ summary # <<>>
  /\ Len(inputFiles) >= 2
  /\ config.MaxWorkers >= 2

\* C4 (step part): a job that failed at spawn, stdin write or wait adds one
\* to Failed and nothing to Successful; Successful grows only for a job whose
\* child was started, was written to and was waited for with exit status 0;
\* a failing job leaves the position of main unchanged.
C4_Step ==
  \A w \in Workers :
    /\ (wbranch'[w] = "success" /\ wbranch[w] # "success") =>
         (wpc[w] = "wait" /\ proc[w] = "exit0")
    /\ (wpc[w] = "spawn" /\ wpc'[w] = "log") => wbranch'[w] = "spawnerr"
    /\ (wpc[w] = "write" /\ wpc'[w] = "log") => wbranch'[w] = "writeerr"
    /\ (wpc[w] = "wait" /\ proc[w] = "exit1" /\ wpc'[w] = "log") =>
         wbranch'[w] = "waiterr"
    /\ (wpc[w] = "write" /\ wpc'[w] = "wait") => proc[w] = "running"
    /\ (wpc[w] \in {"log", "logging", "count"}) => wbranch'[w] = wbranch[w]
    /\ (wpc[w] = "counting" /\ wpc'[w] = "returned"
          /\ wbranch[w] \in {"spawnerr", "writeerr", "waiterr"}) =>
         /\ stats'.Failed = stats.Failed + 1
         /\ stats'.Successful = stats.Successful
         /\ mainPc' = mainPc
    /\ (stats'.Successful # stats.Successful /\ wpc[w] = "counting"
          /\ wpc'[w] = "returned") =>
         /\ wbranch[w] = "success"
         /\ stats'.Successful = stats.Successful + 1
         /\ stats'.Failed = stats.Failed

\* C4 (state part): the fatal exits are taken before any job is launched, a
\* run that is not finished can always take a step, and a finished run has
\* dispatched and joined every enumerated artifact.
C4_State ==
  /\ mainPc \in {"exit0", "exit1"} => \A w \in Workers : wpc[w] = "idle"
  /\ mainPc \notin {"exit0", "exit1", "done"} => ENABLED Next
  /\ mainPc = "done" => \A w \in Enumerated : wpc[w] = "done"

\* C4: adapter failures at spawn, write or wait are counted as failed and
\* never as successful, success requires start, full write and exit status
\* zero, and no job failure aborts the dispatcher.
C4_FailuresCountedRunContinues == [][C4_Step]_vars /\ []C4_State

\* C4 witness: a run completed with a spawn, write or wait failure counted
\* and another job counted as successful
C4_Witness ==
  /\ mainPc = "done"
  /\ stats.Failed >= 1
  /\ stats.Successful >= 1
  /\ \E w \in Enumerated : proc[w] # "none"

\* no job was launched and no subprocess was created
NothingLaunched ==
  /\ \A w \in Workers : wpc[w] = "idle" /\ proc[w] = "none"
  /\ wg = 0
  /\ semaphore = 0

\* C12: when the input directory cannot be enumerated (it does not exist or
\* cannot be read), the run is fatal: once the enumeration is over the
\* process has exited with a non-zero status, and no job was launched.
\* (Fails: filepath.Glob reports no I/O error, so a missing directory is an
\* empty list of files and the process exits with status 0.)
C12_EnumerationFailureFatal ==
  (inputDir.state # "ok" /\ mainPc # "find") =>
    /\ mainPc = "exit1"
    /\ NothingLaunched

\* C13: when the enumeration returns no file, the run has logged one more
\* line (the warning), has launched no worker and no subprocess, has exited
\* with status 0, and every counter is zero.
C13_EmptyRun ==
  (mainPc \notin {"find", "exit1"} /\ Len(inputFiles) = 0) =>
    /\ mainPc = "exit0"
    /\ logLines = 2
    /\ NothingLaunched
    /\ summary = <<>>
    /\ stats.Total = 0
    /\ stats.Successful = 0
    /\ stats.Failed = 0
    /\ stats.Skipped = 0

\* C13 witness: the run over an existing, empty input folder has ended
C13_Witness ==
  /\ mainPc = "exit0"
  /\ inputDir.state = "ok"
  /\ inputDir.entries = {}
  /\ logLines = 2

\* some worker has been launched
SomeLaunched == \E w \in Workers : wpc[w] # "idle"

\* C16 (state part): the counted outcomes never exceed Total, and from the
\* launch of the first worker on Total is the number of enumerated files.
C16_State ==
  /\ stats.Successful + stats.Failed + stats.Skipped <= stats.Total
  /\ SomeLaunched => stats.Total = Len(inputFiles)

\* C16 (step part): once a worker has been launched, no step changes Total.
C16_Step == SomeLaunched => stats'.Total = stats.Total

\* C16: Successful + Failed + Skipped <= Total in every reachable state,
\* and Total is set to the number of enumerated artifacts before the first
\* worker is launched and never changes afterwards.
C16_CountsWithinTotal == []C16_State /\ [][C16_Step]_vars

\* C16 witness: two workers are running, one outcome is counted, and the
\* other is still to come
C16_Witness ==
  /\ stats.Total = 2
  /\ stats.Successful + stats.Failed + stats.Skipped = 1
  /\ \E w \in Workers : wpc[w] \in {"wait", "log", "count"}

\* workers inside a log write or inside a counter update
InCritical == {w \in Workers : wpc[w] \in {"logging", "counting"}}

\* workers that have written their log line
Logged ==
  {w \in Workers : wpc[w] \in {"count", "counting", "returned", "released", "done"}}

\* workers that have made their counter update
Counted == {w \in Workers : wpc[w] \in {"returned", "released", "done"}}

\* C17 (state part): a worker inside a log write or a counter update holds
\* the mutex, so at most one worker is inside either; every counter update
\* and every log line made so far is still there: the counters add up to
\* the number of workers that have counted, and the log has the two lines
\* of main, one line per worker that has logged, and the summary line.
C17_State ==
  /\ \A w \in InCritical : mutex = w
  /\ Cardinality(InCritical) <= 1
  /\ mainPc \notin {"find", "setup", "exit0", "exit1", "off"} =>
       /\ stats.Successful + stats.Failed + stats.Skipped = Cardinality(Counted)
       /\ logLines = 2 + Cardinality(Logged) + (IF summary = <<>> THEN 0 ELSE 1)

\* C17 (step part): while some worker is running, a step that changes a
\* counter or the log is made by the worker that holds the mutex, from
\* inside its critical section.
C17_Step ==
  ((stats' # stats \/ logLines' # logLines)
     /\ \E w \in Workers : wpc[w] \notin {"idle", "done"}) =>
    /\ mutex \in Workers
    /\ wpc[mutex] \in {"logging", "counting"}
    /\ wpc'[mutex] \notin {"logging", "counting"}
    /\ mutex' = 0

\* C17: while workers are running, every counter update and every append to
\* the log is made while holding the one mutex; two workers are never inside
\* a counter update or a log write together, and no increment is lost.
C17_MutexProtectsStatsAndLog == []C17_State /\ [][C17_Step]_vars

\* C17 witness: one worker is inside its counter update while another, that
\* has logged, is waiting for the mutex to count
C17_Witness ==
  \E w, v \in Workers :
    /\ w # v
    /\ wpc[w] = "counting"
    /\ wpc[v] = "count"
    /\ mutex = w

\* workers that were launched and whose deferred release has not run
Holding == {w \in Workers : wpc[w] \notin {"idle", "released", "done"}}

\* C18 as stated: in every reachable state the number of held slots is the
\* number of workers launched and not yet returned, and zero at the end.
\* (Fails: main takes the slot of a job before it starts the job's worker,
\* so between the two the channel holds one more token.)
C18_Original ==
  /\ semaphore = Cardinality(Holding)
  /\ mainPc = "done" => semaphore = 0

\* C18 (amended): the number of held slots is the number of workers launched
\* and not yet released, plus one while main has taken the slot of the next
\* job and has not started its worker yet; it never exceeds MaxWorkers;
\* every worker that has finished, by whichever return of processFile, has
\* given its slot back, and no slot is held once the workers are joined.
C18_SlotsBalance ==
  /\ semaphore = Cardinality(Holding) + (IF mainPc = "go" THEN 1 ELSE 0)
  /\ semaphore <= config.MaxWorkers
  /\ mainPc \in {"summary", "done"} => semaphore = 0

\* C18 witness: one worker is inside processFile with its slot while main
\* holds a second slot for the job it is about to start
C18_Witness ==
  /\ mainPc = "go"
  /\ semaphore = 2
  /\ Cardinality(Holding) = 1
  /\ \E w \in Workers : wpc[w] \in {"wait", "log", "count"}

\* the jobs whose artifact kind is unknown
UnknownJobs ==
  {w \in Enumerated : detectFileType(inputFiles[w][2]) = FileTypeUnknown}

SomeHung == \E h \in Workers : proc[h] \in HungStates

\* C20 (state part): with MaxWorkers >= 2, the worker of an invocation that
\* never terminates does not hold the mutex, and the run is not at its
\* completion summary and has not produced it.
C20_State ==
  (config.MaxWorkers >= 2 /\ SomeHung) =>
    /\ \A h \in Workers : proc[h] \in HungStates /\ wpc[h] \in {"write", "wait"} =>
                             mutex # h
    /\ mainPc \notin {"summary", "done"}
    /\ summary = <<>>

\* C20 (progress part): with MaxWorkers >= 2, once an invocation hangs,
\* every other enumerated job is eventually started and counted.
C20_OthersCounted ==
  (config.MaxWorkers >= 2 /\ SomeHung) ~>
    (\A w \in Enumerated : proc[w] \in HungStates \/ w \in Counted)

\* C20: with MaxWorkers >= 2, if one adapter invocation never terminates
\* while all others do, its worker does not hold the mutex while blocked,
\* every other enumerated job is eventually started and counted, and the run
\* never reaches the completion summary.
\* (Fails: a child that closes its stdin and then hangs makes stdin.Write
\* fail; processFile returns without cmd.Wait, the worker finishes, and the
\* run reaches its summary while the invocation is still there.)
C20_HungBlocksOnlyItsSlot == []C20_State /\ C20_OthersCounted

\* C24: no two jobs of a run have the same output path, so two fabric
\* invocations that run at the same time never write the same output file.
\* (Fails: the output path drops the input extension, so alice.json and
\* alice.md both go to alice.md, and with two workers both run together.)
C24_OutputPathsDistinct ==
  \A w, v \in Enumerated :
    w # v =>
      /\ outputFilePath(inputFiles[w]) # outputFilePath(inputFiles[v])
      /\ ~(w \in RunningProcs /\ v \in RunningProcs
             /\ outputFilePath(inputFiles[w]) = outputFilePath(inputFiles[v]))

\* C25: a worker that has returned from processFile has waited for the
\* subprocess it started, if it started one, on every path.
\* (Fails: on the path where the write to the child's stdin fails,
\* processFile returns without cmd.Wait.)
C25_StartedIsWaited ==
  \A w \in Workers :
    wpc[w] \in {"returned", "released", "done"} => proc[w] \in {"none", "reaped"}

\* C26 (progress part): the run ends.
C26_Ends == <>(mainPc \in {"exit0", "exit1", "done"})

\* C26 (state part): a run ends without its summary only when no file was
\* enumerated; otherwise it ends with the summary emitted, every enumerated
\* artifact dispatched and every worker returned; and a run that has not
\* ended can take a step (the loop never deadlocks on the semaphore).
C26_State ==
  /\ mainPc \in {"exit0", "exit1"} => Len(inputFiles) = 0
  /\ mainPc = "done" =>
       /\ summary # <<>>
       /\ idx = Len(inputFiles) + 1
       /\ \A w \in Enumerated : wpc[w] = "done"
       /\ wg = 0
  /\ mainPc \in {"add", "acquire", "go", "wgwait"} => ENABLED Next

\* C26: with MaxWorkers >= 1 and fabric invocations that all terminate,
\* under fair scheduling the run terminates: every enumerated artifact is
\* dispatched, every worker returns, and the completion summary is emitted.
C26_RunTerminates == C26_Ends /\ []C26_State

\* C26 witness: a run of two files with one worker slot has ended with its
\* summary
C26_Witness ==
  /\ mainPc = "done"
  /\ summary # <<>>
  /\ config.MaxWorkers = 1
  /\ Len(inputFiles) = 2
  /\ wg = 0

====
